---- MODULE Spec2Model ----
(***************************************************************************)
(* The Andon alerting engine of src/andon_system.py: the rule registry,    *)
(* the trigger store (AndonSystem.active_triggers), resolution, alert      *)
(* dispatch and the JSON snapshot export/import.                           *)
(***************************************************************************)
EXTENDS Integers, Sequences, FiniteSets, TLC

(* ------------------------------ bounds --------------------------------- *)
\* longest trigger list the model lets the store grow to
MaxTriggers == 2
\* last value of the clock read by datetime.now(), in half seconds
MaxTime == 1
\* most sensor fields present in one telemetry record
MaxFields == 2
\* most records in a snapshot file written by another system
MaxSnapshot == 2
\* most handler calls started by the workers of the concurrent specification
MaxJobs == 3
\* most channels whose body raises during one call of process_sensor_data
MaxFailing == 1

VARIABLES
    alert_rules,        \* AndonSystem.alert_rules: sequence of AlertRule
    active_triggers,    \* AndonSystem.active_triggers: sequence of AndonTrigger
    now,                \* the value datetime.now() returns
    file,               \* contents of andon_triggers.json
    alerts,             \* notifier invocations made so far, in order
    op,                 \* the handler call that has just ended, with its arguments;
                        \* blank once the caller has its result
    ret,                \* what that call returned, raised and logged
    pre,                \* the trigger list and the notifier log when that call began
    record,             \* the telemetry record handed to the evaluator
    pc,                 \* per worker: position inside its handler
    job,                \* per worker: the handler call it runs
    locals,             \* per worker: the handler's local variables
    jobs                \* number of handler calls the workers have started

vars == <<alert_rules, active_triggers, now, file, alerts, op, ret, pre, record,
          pc, job, locals, jobs>>

(* --------------------------- Python values ----------------------------- *)
\* A Python/JSON value: a number, a string, a bool, None, a datetime (n half
\* seconds), an ISO-8601 text (n whole seconds, s the fraction written after
\* them), or the absence of a key in a dict.
Num(n)  == [tag |-> "num",    n |-> n, s |-> ""]
Str(x)  == [tag |-> "str",    n |-> 0, s |-> x]
Bool(b) == [tag |-> "bool",   n |-> IF b THEN 1 ELSE 0, s |-> ""]
NoneV   == [tag |-> "none",   n |-> 0, s |-> ""]
Absent  == [tag |-> "absent", n |-> 0, s |-> ""]
Dt(t)   == [tag |-> "datetime", n |-> t, s |-> ""]
Iso(sec, frac) == [tag |-> "iso", n |-> sec, s |-> frac]

\* dict.get(key, default)
Get(data, key, default) == IF data[key] = Absent THEN default ELSE data[key]

\* bool(value)
Truthy(v) ==
    CASE v.tag = "num"  -> v.n # 0
      [] v.tag = "bool" -> v.n = 1
      [] v.tag = "str"  -> v.s # ""
      [] v.tag = "iso"  -> TRUE
      [] v.tag = "datetime" -> TRUE
      [] OTHER          -> FALSE

\* value > threshold and value < threshold raise TypeError unless value is a number
Comparable(v) == v.tag \in {"num", "bool"}

(* ------------------------------ config --------------------------------- *)
critical_vibration == 4
high_temp == 80
current_limit == 15
rul_limit == 24

\* escalation_config with 'stop_machine': True for severity high as well
escalation_config_high_stops ==
    [low      |-> [email |-> TRUE, sms |-> FALSE, dashboard |-> TRUE, stop_machine |-> FALSE],
     medium   |-> [email |-> TRUE, sms |-> FALSE, dashboard |-> TRUE, stop_machine |-> FALSE],
     high     |-> [email |-> TRUE, sms |-> TRUE,  dashboard |-> TRUE, stop_machine |-> TRUE],
     critical |-> [email |-> TRUE, sms |-> TRUE,  dashboard |-> TRUE, stop_machine |-> TRUE]]

\* AndonSystem.escalation_config; a channel a severity has no key for is FALSE
escalation_config ==
    [low      |-> [email |-> TRUE, sms |-> FALSE, dashboard |-> TRUE, stop_machine |-> FALSE],
     medium   |-> [email |-> TRUE, sms |-> FALSE, dashboard |-> TRUE, stop_machine |-> FALSE],
     high     |-> [email |-> TRUE, sms |-> TRUE,  dashboard |-> TRUE, stop_machine |-> FALSE],
     critical |-> [email |-> TRUE, sms |-> TRUE,  dashboard |-> TRUE, stop_machine |-> TRUE]]

(* ------------------------------- rules --------------------------------- *)
temp_keys == <<"servo_temp", "oil_temp", "head_temp", "coolant_temp">>
current_keys == <<"motor_current", "spindle_current", "spindle_torque">>

\* any(data[k] > limit for k in keys): a missing key raises KeyError
RECURSIVE AnyGreater_without_default(_, _, _, _)
AnyGreater_without_default(data, keys, limit, i) ==
    IF i > Len(keys) THEN "false"
    ELSE LET v == data[keys[i]] IN
         IF ~Comparable(v) THEN "raise"
         ELSE IF v.n > limit THEN "true"
         ELSE AnyGreater_without_default(data, keys, limit, i + 1)

\* any(data.get(k, 0) > limit for k in keys): the generator is consumed in
\* order, stops at the first true element, and a comparison that raises
\* before that ends the whole expression.
RECURSIVE AnyGreater(_, _, _, _)
AnyGreater(data, keys, limit, i) ==
    IF i > Len(keys) THEN "false"
    ELSE LET v == Get(data, keys[i], Num(0)) IN
         IF ~Comparable(v) THEN "raise"
         ELSE IF v.n > limit THEN "true"
         ELSE AnyGreater(data, keys, limit, i + 1)

\* What a rule's condition gives on data: "true", "false", or "raise".  A
\* condition is named after the default rule it is written for; "always" is
\* lambda data: True and "broken" is lambda data: data['missing'], two
\* conditions a caller of add_rule supplies.
Condition(name, data) ==
    CASE name = "Critical Vibration" ->
            LET v == Get(data, "vibration_rms", Num(0)) IN
            IF ~Comparable(v) THEN "raise"
            ELSE IF v.n > critical_vibration THEN "true" ELSE "false"
      [] name = "High Temperature" -> AnyGreater(data, temp_keys, high_temp, 1)
      [] name = "Current Spike"    -> AnyGreater(data, current_keys, current_limit, 1)
      [] name = "Quality Issue"    ->
            LET v == Get(data, "quality_flag", NoneV) IN
            IF v.tag = "str" /\ v.s \in {"scrap", "rework"} THEN "true" ELSE "false"
      [] name = "Machine Fault"    ->
            LET v == Get(data, "state", NoneV) IN
            IF v.tag = "str" /\ v.s = "fault" THEN "true" ELSE "false"
      [] name = "ML Anomaly"       ->
            IF Truthy(Get(data, "anomaly_detected", Bool(FALSE))) THEN "true" ELSE "false"
      [] name = "Low RUL"          ->
            LET v == Get(data, "rul_hours", Num(rul_limit)) IN
            IF ~Comparable(v) THEN "raise"
            ELSE IF v.n < rul_limit THEN "true" ELSE "false"
      [] name = "always"           -> "true"
      [] name = "broken"           -> "raise"
      [] OTHER -> "false"

AlertRule(name, condition, severity, escalation_level, description) ==
    [name |-> name, condition |-> condition, severity |-> severity,
     escalation_level |-> escalation_level, description |-> description]

\* AlertRule.evaluate with an except branch that returns True
AlertRule_evaluate_raise_matches(rule, data) == Condition(rule.condition, data) # "false"

\* AlertRule.evaluate: the condition's result, False when it raised
AlertRule_evaluate(rule, data) == Condition(rule.condition, data) = "true"

\* add_rule that puts the new rule in the place of the one of the same name
add_rule_overwrites(rules, rule) ==
    IF \E i \in 1..Len(rules) : rules[i].name = rule.name
    THEN [i \in 1..Len(rules) |-> IF rules[i].name = rule.name THEN rule ELSE rules[i]]
    ELSE Append(rules, rule)

\* AndonSystem.add_rule on a rule list
add_rule(rules, rule) ==
    IF \E i \in 1..Len(rules) : rules[i].name = rule.name
    THEN rules
    ELSE Append(rules, rule)

default_rules ==
    <<AlertRule("Critical Vibration", "Critical Vibration", "critical", 4, "Vibration exceeds critical threshold"),
      AlertRule("High Temperature", "High Temperature", "high", 3, "Temperature exceeds safe operating limits"),
      AlertRule("Current Spike", "Current Spike", "high", 3, "Motor current exceeds normal operating range"),
      AlertRule("Quality Issue", "Quality Issue", "medium", 2, "Quality issue detected in production"),
      AlertRule("Machine Fault", "Machine Fault", "critical", 4, "Machine fault detected"),
      AlertRule("ML Anomaly", "ML Anomaly", "medium", 2, "ML model detected anomalous behavior"),
      AlertRule("Low RUL", "Low RUL", "high", 3, "Remaining useful life is critically low")>>

RECURSIVE setup_default_rules(_, _)
setup_default_rules(rules, i) ==
    IF i > Len(default_rules) THEN rules
    ELSE setup_default_rules(add_rule(rules, default_rules[i]), i + 1)

\* evaluate_sensor_data whose loop ends at the first rule whose condition raised
RECURSIVE evaluate_loop_stops_at_raise(_, _, _, _)
evaluate_loop_stops_at_raise(rules, data, i, triggered_rules) ==
    IF i > Len(rules) \/ Condition(rules[i].condition, data) = "raise" THEN triggered_rules
    ELSE evaluate_loop_stops_at_raise(rules, data, i + 1,
            IF AlertRule_evaluate(rules[i], data)
            THEN Append(triggered_rules, rules[i])
            ELSE triggered_rules)

\* AndonSystem.evaluate_sensor_data: the loop over alert_rules from index i,
\* triggered_rules being the list built so far
RECURSIVE evaluate_loop(_, _, _, _)
evaluate_loop(rules, data, i, triggered_rules) ==
    IF i > Len(rules) THEN triggered_rules
    ELSE evaluate_loop(rules, data, i + 1,
            IF AlertRule_evaluate(rules[i], data)
            THEN Append(triggered_rules, rules[i])
            ELSE triggered_rules)

evaluate_sensor_data(rules, data) == evaluate_loop(rules, data, 1, <<>>)

(* ------------------------------ triggers ------------------------------- *)
\* AndonTrigger.__init__, time being what datetime.now() returns
AndonTrigger(machine_id, trigger_type, severity, description, timestamp, time) ==
    [machine_id |-> machine_id, trigger_type |-> trigger_type,
     severity |-> severity, description |-> description,
     timestamp |-> IF Truthy(timestamp) THEN timestamp ELSE Dt(time),
     resolved |-> FALSE,
     resolution_time |-> NoneV, resolution_action |-> NoneV]

\* AndonTrigger.resolve that forgets to store the action
resolve_without_action(trigger, action, time) ==
    [trigger EXCEPT !.resolved = TRUE, !.resolution_time = Dt(time)]

\* AndonTrigger.resolve at clock value time
resolve(trigger, action, time) ==
    [trigger EXCEPT !.resolved = TRUE,
                    !.resolution_time = Dt(time),
                    !.resolution_action = action]

\* get_active_trigger testing trigger.resolved where the source tests its negation
get_active_trigger_inverted(triggers, machine_id, trigger_type) ==
    LET hits == {i \in 1..Len(triggers) :
                    /\ triggers[i].machine_id = machine_id
                    /\ triggers[i].trigger_type = trigger_type
                    /\ triggers[i].resolved}
    IN IF hits = {} THEN 0 ELSE CHOOSE i \in hits : \A j \in hits : i <= j

\* get_active_trigger without the test of trigger.trigger_type
get_active_trigger_ignore_type(triggers, machine_id, trigger_type) ==
    LET hits == {i \in 1..Len(triggers) :
                    /\ triggers[i].machine_id = machine_id
                    /\ ~triggers[i].resolved}
    IN IF hits = {} THEN 0 ELSE CHOOSE i \in hits : \A j \in hits : i <= j

\* get_active_trigger without the test of trigger.resolved
get_active_trigger_any(triggers, machine_id, trigger_type) ==
    LET hits == {i \in 1..Len(triggers) :
                    /\ triggers[i].machine_id = machine_id
                    /\ triggers[i].trigger_type = trigger_type}
    IN IF hits = {} THEN 0 ELSE CHOOSE i \in hits : \A j \in hits : i <= j

\* get_active_trigger without the test of trigger.machine_id
get_active_trigger_ignore_machine(triggers, machine_id, trigger_type) ==
    LET hits == {i \in 1..Len(triggers) :
                    /\ triggers[i].trigger_type = trigger_type
                    /\ ~triggers[i].resolved}
    IN IF hits = {} THEN 0 ELSE CHOOSE i \in hits : \A j \in hits : i <= j

\* AndonSystem.get_active_trigger: the position in the list of the first
\* unresolved trigger of the key, 0 for None.  The list only grows, so a
\* position identifies a trigger object for good.
get_active_trigger(triggers, machine_id, trigger_type) ==
    LET hits == {i \in 1..Len(triggers) :
                    /\ triggers[i].machine_id = machine_id
                    /\ triggers[i].trigger_type = trigger_type
                    /\ ~triggers[i].resolved}
    IN IF hits = {} THEN 0 ELSE CHOOSE i \in hits : \A j \in hits : i <= j

\* create_andon_trigger that puts the new trigger in the place of the key's
\* earlier resolved trigger
create_andon_trigger_replaces(triggers, machine_id, trigger_type, severity, description, time) ==
    LET Other(t) == ~(t.machine_id = machine_id /\ t.trigger_type = trigger_type /\ t.resolved)
    IN Append(SelectSeq(triggers, Other),
              AndonTrigger(machine_id, trigger_type, severity, description, NoneV, time))

\* AndonSystem.create_andon_trigger
create_andon_trigger(triggers, machine_id, trigger_type, severity, description, time) ==
    Append(triggers, AndonTrigger(machine_id, trigger_type, severity, description, NoneV, time))

(* ------------------------------ dispatch ------------------------------- *)
\* One call of a channel method: done tells whether its body ran to its end.
Notify(channel, machine_id, trigger_type, done) ==
    [channel |-> channel, machine_id |-> machine_id,
     trigger_type |-> trigger_type, done |-> done]

\* What a channel method gives: the trigger object as the method leaves it,
\* the call made, the error records logged, the exception that leaves the
\* method ("" for none).  failing is the set of channels whose body raises.
Outcome(trigger, calls, logged, exc) ==
    [trigger |-> trigger, alerts |-> calls, logged |-> logged, exc |-> exc]

\* send_email_alert: the body is inside try/except, a failure is logged
send_email_alert(trigger, failing) ==
    Outcome(trigger,
            <<Notify("email", trigger.machine_id, trigger.trigger_type, "email" \notin failing)>>,
            IF "email" \in failing THEN <<"Failed to send email alert">> ELSE <<>>,
            "")

\* send_sms_alert: the body is inside try/except, a failure is logged
send_sms_alert(trigger, failing) ==
    Outcome(trigger,
            <<Notify("sms", trigger.machine_id, trigger.trigger_type, "sms" \notin failing)>>,
            IF "sms" \in failing THEN <<"Failed to send SMS alert">> ELSE <<>>,
            "")

\* update_dashboard_alert: no handler, an exception leaves the method
update_dashboard_alert(trigger, failing) ==
    Outcome(trigger,
            <<Notify("dashboard", trigger.machine_id, trigger.trigger_type,
                     "dashboard" \notin failing)>>,
            <<>>,
            IF "dashboard" \in failing THEN "Exception" ELSE "")

\* stop_machine that marks the trigger resolved once the machine is stopped
stop_machine_marks_resolved(trigger, failing) ==
    Outcome([trigger EXCEPT !.resolved = TRUE],
            <<Notify("stop_machine", trigger.machine_id, "", "stop_machine" \notin failing)>>,
            <<>>,
            IF "stop_machine" \in failing THEN "Exception" ELSE "")

\* stop_machine(trigger.machine_id): it is handed the machine id only; its
\* body is the log record "STOPPING MACHINE"; no handler
stop_machine(trigger, failing) ==
    Outcome(trigger,
            <<Notify("stop_machine", trigger.machine_id, "", "stop_machine" \notin failing)>>,
            <<>>,
            IF "stop_machine" \in failing THEN "Exception" ELSE "")

\* escalation_config.get(severity, {}).get(channel, False) for every channel
ChannelOn_ignores_default(severity, channel, default) ==
    IF severity \in DOMAIN escalation_config
    THEN escalation_config[severity][channel]
    ELSE FALSE

\* escalation_config.get(severity, {}).get(channel, default)
ChannelOn(severity, channel, default) ==
    IF severity \in DOMAIN escalation_config
    THEN escalation_config[severity][channel]
    ELSE default

\* One "if escalation_config.get(channel, default): self.<method>(trigger)" of
\* send_alerts, r being the outcome of the statements before it: nothing more
\* runs once an exception is on its way out.
Channel(r, channel, default, failing) ==
    IF r.exc # "" \/ ~ChannelOn(r.trigger.severity, channel, default) THEN r
    ELSE LET c == CASE channel = "email" -> send_email_alert(r.trigger, failing)
                    [] channel = "sms" -> send_sms_alert(r.trigger, failing)
                    [] channel = "dashboard" -> update_dashboard_alert(r.trigger, failing)
                    [] OTHER -> stop_machine(r.trigger, failing)
         IN Outcome(c.trigger, r.alerts \o c.alerts, r.logged \o c.logged, c.exc)

\* AndonSystem.send_alerts
send_alerts(trigger, failing) ==
    Channel(Channel(Channel(Channel(Outcome(trigger, <<>>, <<>>, ""),
                                    "email", FALSE, failing),
                            "sms", FALSE, failing),
                    "dashboard", TRUE, failing),
            "stop_machine", FALSE, failing)

(* ------------------------- process_sensor_data ------------------------- *)
\* process_sensor_data that calls send_alerts for the existing trigger as well
RECURSIVE process_loop_alerts_existing(_, _, _, _, _, _)
process_loop_alerts_existing(st, triggered_rules, data, time, failing, i) ==
    IF i > Len(triggered_rules) THEN st
    ELSE IF data["machine_id"] = Absent THEN [st EXCEPT !.exc = "KeyError"]
    ELSE
        LET rule == triggered_rules[i]
            machine_id == data["machine_id"].s
            existing_trigger == get_active_trigger(st.store, machine_id, rule.name)
            store == IF existing_trigger # 0 THEN st.store
                     ELSE create_andon_trigger(st.store, machine_id, rule.name,
                                               rule.severity, rule.description, time)
            at == IF existing_trigger # 0 THEN existing_trigger ELSE Len(store)
            sent == send_alerts(store[at], failing)
            next == [store   |-> [store EXCEPT ![at] = sent.trigger],
                     created |-> IF existing_trigger # 0 THEN st.created
                                 ELSE Append(st.created, at),
                     alerts  |-> st.alerts \o sent.alerts,
                     logged  |-> st.logged \o sent.logged,
                     exc     |-> sent.exc]
        IN IF sent.exc # "" THEN next
           ELSE process_loop_alerts_existing(next, triggered_rules, data, time, failing, i + 1)

\* process_sensor_data that puts the existing trigger in triggers_created too
RECURSIVE process_loop_returns_existing(_, _, _, _, _, _)
process_loop_returns_existing(st, triggered_rules, data, time, failing, i) ==
    IF i > Len(triggered_rules) THEN st
    ELSE IF data["machine_id"] = Absent THEN [st EXCEPT !.exc = "KeyError"]
    ELSE
        LET rule == triggered_rules[i]
            machine_id == data["machine_id"].s
            existing_trigger == get_active_trigger(st.store, machine_id, rule.name)
        IN IF existing_trigger # 0
           THEN process_loop_returns_existing(
                    [st EXCEPT !.created = Append(@, existing_trigger)],
                    triggered_rules, data, time, failing, i + 1)
           ELSE LET store == create_andon_trigger(st.store, machine_id, rule.name,
                                                  rule.severity, rule.description, time)
                    sent == send_alerts(store[Len(store)], failing)
                    next == [store   |-> [store EXCEPT ![Len(store)] = sent.trigger],
                             created |-> Append(st.created, Len(store)),
                             alerts  |-> st.alerts \o sent.alerts,
                             logged  |-> st.logged \o sent.logged,
                             exc     |-> sent.exc]
                IN IF sent.exc # "" THEN next
                   ELSE process_loop_returns_existing(next, triggered_rules, data, time,
                                                      failing, i + 1)

\* process_sensor_data that takes the trigger out of the list again when
\* send_alerts raised
RECURSIVE process_loop_drops_on_failure(_, _, _, _, _, _)
process_loop_drops_on_failure(st, triggered_rules, data, time, failing, i) ==
    IF i > Len(triggered_rules) THEN st
    ELSE IF data["machine_id"] = Absent THEN [st EXCEPT !.exc = "KeyError"]
    ELSE
        LET rule == triggered_rules[i]
            machine_id == data["machine_id"].s
            existing_trigger == get_active_trigger(st.store, machine_id, rule.name)
        IN IF existing_trigger # 0
           THEN process_loop_drops_on_failure(st, triggered_rules, data, time, failing, i + 1)
           ELSE LET store == create_andon_trigger(st.store, machine_id, rule.name,
                                                  rule.severity, rule.description, time)
                    sent == send_alerts(store[Len(store)], failing)
                    next == [store   |-> [store EXCEPT ![Len(store)] = sent.trigger],
                             created |-> Append(st.created, Len(store)),
                             alerts  |-> st.alerts \o sent.alerts,
                             logged  |-> st.logged \o sent.logged,
                             exc     |-> sent.exc]
                IN IF sent.exc # ""
                   THEN [next EXCEPT !.store = st.store, !.created = st.created]
                   ELSE process_loop_drops_on_failure(next, triggered_rules, data, time,
                                                      failing, i + 1)

\* The for loop of process_sensor_data from the i-th triggered rule on.
\* st = [store, created, alerts, logged, exc]: the trigger list, the positions
\* of the triggers created so far, the channel calls made, the error records
\* logged, the exception raised.  An exception that leaves send_alerts leaves
\* process_sensor_data too, the trigger staying in the list.
RECURSIVE process_loop(_, _, _, _, _, _)
process_loop(st, triggered_rules, data, time, failing, i) ==
    IF i > Len(triggered_rules) THEN st
    ELSE IF data["machine_id"] = Absent THEN [st EXCEPT !.exc = "KeyError"]
    ELSE
        LET rule == triggered_rules[i]
            machine_id == data["machine_id"].s
            existing_trigger == get_active_trigger(st.store, machine_id, rule.name)
        IN IF existing_trigger # 0
           THEN process_loop(st, triggered_rules, data, time, failing, i + 1)
           ELSE LET store == create_andon_trigger(st.store, machine_id, rule.name,
                                                  rule.severity, rule.description, time)
                    sent == send_alerts(store[Len(store)], failing)
                    next == [store   |-> [store EXCEPT ![Len(store)] = sent.trigger],
                             created |-> Append(st.created, Len(store)),
                             alerts  |-> st.alerts \o sent.alerts,
                             logged  |-> st.logged \o sent.logged,
                             exc     |-> sent.exc]
                IN IF sent.exc # "" THEN next
                   ELSE process_loop(next, triggered_rules, data, time, failing, i + 1)

\* process_sensor_data that swallows the KeyError and returns its list
process_sensor_data_swallows_keyerror(rules, triggers, log, data, time, failing) ==
    LET r == process_loop([store |-> triggers, created |-> <<>>, alerts |-> log,
                           logged |-> <<>>, exc |-> ""],
                          evaluate_sensor_data(rules, data), data, time, failing, 1)
    IN IF r.exc = "KeyError" THEN [r EXCEPT !.exc = ""] ELSE r

\* AndonSystem.process_sensor_data: the state the for loop ends in
process_sensor_data(rules, triggers, log, data, time, failing) ==
    process_loop([store |-> triggers, created |-> <<>>, alerts |-> log,
                  logged |-> <<>>, exc |-> ""],
                 evaluate_sensor_data(rules, data), data, time, failing, 1)

(* --------------------------- resolve_trigger --------------------------- *)
\* resolve_trigger that takes the trigger it resolved out of the list
resolve_trigger_removes(triggers, machine_id, trigger_type, action, time) ==
    LET trigger == get_active_trigger(triggers, machine_id, trigger_type) IN
    IF trigger # 0
    THEN [store |-> SubSeq(triggers, 1, trigger - 1)
                    \o SubSeq(triggers, trigger + 1, Len(triggers)),
          val |-> TRUE]
    ELSE [store |-> triggers, val |-> FALSE]

\* AndonSystem.resolve_trigger: the trigger list afterwards and the value returned
resolve_trigger(triggers, machine_id, trigger_type, action, time) ==
    LET trigger == get_active_trigger(triggers, machine_id, trigger_type) IN
    IF trigger # 0
    THEN [store |-> [triggers EXCEPT ![trigger] = resolve(@, action, time)],
          val |-> TRUE]
    ELSE [store |-> triggers, val |-> FALSE]

(* ------------------------- get_active_triggers ------------------------- *)
\* get_active_triggers that ignores its machine filter
get_active_triggers_ignores_filter(triggers, machine_id) ==
    LET Active(t) == ~t.resolved
    IN SelectSeq(triggers, Active)

\* AndonSystem.get_active_triggers(machine_id), "" standing for None (both
\* fail the test "if machine_id")
get_active_triggers(triggers, machine_id) ==
    LET ActiveOf(t) == t.machine_id = machine_id /\ ~t.resolved
        Active(t) == ~t.resolved
    IN IF machine_id # "" THEN SelectSeq(triggers, ActiveOf)
       ELSE SelectSeq(triggers, Active)

(* ----------------------------- statistics ------------------------------ *)
\* AndonSystem.get_trigger_history(machine_id, days) at clock value time:
\* cutoff_date = datetime.now() - timedelta(days=days), a day being 172800
\* half seconds; machine_id "" stands for None
get_trigger_history(triggers, machine_id, days, time) ==
    LET cutoff_date == time - days * 172800
        Keep(t) == /\ machine_id # "" => t.machine_id = machine_id
                   /\ t.timestamp.n >= cutoff_date
    IN SelectSeq(triggers, Keep)

\* one "for trigger in history: d[key] = d.get(key, 0) + 1" loop of
\* get_trigger_statistics with a first count of 1 where the source has 0
RECURSIVE count_by_starts_at_one(_, _, _, _)
count_by_starts_at_one(history, field, i, d) ==
    IF i > Len(history) THEN d
    ELSE LET key == history[i][field] IN
         count_by_starts_at_one(history, field, i + 1,
            [k \in DOMAIN d \cup {key} |->
                IF k = key THEN (IF key \in DOMAIN d THEN d[key] ELSE 1) + 1 ELSE d[k]])

\* one "for trigger in history: d[key] = d.get(key, 0) + 1" loop of
\* get_trigger_statistics, from the i-th trigger on, d being the dict so far
RECURSIVE count_by(_, _, _, _)
count_by(history, field, i, d) ==
    IF i > Len(history) THEN d
    ELSE LET key == history[i][field] IN
         count_by(history, field, i + 1,
            [k \in DOMAIN d \cup {key} |->
                IF k = key THEN (IF key \in DOMAIN d THEN d[key] ELSE 0) + 1 ELSE d[k]])

\* a / b as the number it is: a fraction in lowest terms
RECURSIVE GCD(_, _)
GCD(a, b) == IF b = 0 THEN a ELSE GCD(b, a % b)
Quotient(a, b) == [num |-> a \div GCD(a, b), den |-> b \div GCD(a, b)]

\* the empty dict
EmptyDict == [k \in {} |-> 0]

\* get_trigger_statistics whose rate divides by the length of the whole list
get_trigger_statistics_over_store(triggers, days, time) ==
    LET history == get_trigger_history(triggers, "", days, time)
        IsResolved(t) == t.resolved
        resolved_count == Len(SelectSeq(history, IsResolved))
    IN [total_triggers |-> Len(history),
        by_severity |-> count_by(history, "severity", 1, EmptyDict),
        by_machine |-> count_by(history, "machine_id", 1, EmptyDict),
        by_type |-> count_by(history, "trigger_type", 1, EmptyDict),
        resolution_rate |-> IF history # <<>> THEN Quotient(resolved_count, Len(triggers))
                            ELSE Quotient(0, 1)]

\* AndonSystem.get_trigger_statistics(days) at clock value time
get_trigger_statistics(triggers, days, time) ==
    LET history == get_trigger_history(triggers, "", days, time)
        IsResolved(t) == t.resolved
        resolved_count == Len(SelectSeq(history, IsResolved))
    IN [total_triggers |-> Len(history),
        by_severity |-> count_by(history, "severity", 1, EmptyDict),
        by_machine |-> count_by(history, "machine_id", 1, EmptyDict),
        by_type |-> count_by(history, "trigger_type", 1, EmptyDict),
        resolution_rate |-> IF history # <<>> THEN Quotient(resolved_count, Len(history))
                            ELSE Quotient(0, 1)]

(* ----------------------------- construction ---------------------------- *)
\* AndonSystem.__init__ with active_triggers a list all instances share
AndonSystem_shared_store(triggers) ==
    [active_triggers |-> triggers,
     alert_rules |-> setup_default_rules(<<>>, 1),
     alerts |-> <<>>]

\* AndonSystem.__init__: the fields of the new instance and the channel calls
\* it has made when the constructor returns, triggers being the list of the
\* instance that existed before
AndonSystem(triggers) ==
    [active_triggers |-> <<>>,
     alert_rules |-> setup_default_rules(<<>>, 1),
     alerts |-> <<>>]

(* ------------------------------ snapshots ------------------------------ *)
\* datetime.isoformat(): the fraction is written only when it is not zero
isoformat(d) == Iso(d.n \div 2, IF d.n % 2 = 0 THEN "" ELSE ".500000")

\* datetime.fromisoformat() accepts an ISO text only
CanParse(v) == v.tag = "iso" /\ v.s \in {"", ".500000"}
fromisoformat(v) == Dt(2 * v.n + (IF v.s = "" THEN 0 ELSE 1))

\* AndonTrigger.to_dict
to_dict(trigger) ==
    [machine_id |-> Str(trigger.machine_id),
     trigger_type |-> Str(trigger.trigger_type),
     severity |-> Str(trigger.severity),
     description |-> Str(trigger.description),
     timestamp |-> isoformat(trigger.timestamp),
     resolved |-> Bool(trigger.resolved),
     resolution_time |-> IF Truthy(trigger.resolution_time)
                         THEN isoformat(trigger.resolution_time) ELSE NoneV,
     resolution_action |-> trigger.resolution_action]

\* export_triggers: the list json.dump writes
export_triggers(triggers) == [i \in 1..Len(triggers) |-> to_dict(triggers[i])]

\* Does the body of import_triggers' for loop raise on this record?  The keys
\* are read in the order of the source; the resolution fields are read only
\* for a record whose 'resolved' is true.
Raises(trigger_data) ==
    \/ trigger_data.machine_id = Absent
    \/ trigger_data.trigger_type = Absent
    \/ trigger_data.severity = Absent
    \/ trigger_data.description = Absent
    \/ trigger_data.timestamp = Absent
    \/ ~CanParse(trigger_data.timestamp)
    \/ trigger_data.resolved = Absent
    \/ /\ Truthy(trigger_data.resolved)
       /\ \/ trigger_data.resolution_time = Absent
          \/ ~CanParse(trigger_data.resolution_time)
          \/ trigger_data.resolution_action = Absent

\* import_triggers that copies resolved but not the resolution fields
from_dict_resolved_only(trigger_data, time) ==
    LET trigger == AndonTrigger(trigger_data.machine_id.s, trigger_data.trigger_type.s,
                                trigger_data.severity.s, trigger_data.description.s,
                                fromisoformat(trigger_data.timestamp), time)
    IN IF Truthy(trigger_data.resolved)
       THEN [trigger EXCEPT !.resolved = TRUE]
       ELSE trigger

\* The trigger import_triggers builds from a record that does not raise
from_dict(trigger_data, time) ==
    LET trigger == AndonTrigger(trigger_data.machine_id.s, trigger_data.trigger_type.s,
                                trigger_data.severity.s, trigger_data.description.s,
                                fromisoformat(trigger_data.timestamp), time)
    IN IF Truthy(trigger_data.resolved)
       THEN [trigger EXCEPT !.resolved = TRUE,
                            !.resolution_time = fromisoformat(trigger_data.resolution_time),
                            !.resolution_action = trigger_data.resolution_action]
       ELSE trigger

\* import_triggers' for loop from the i-th record on: each record is appended
\* as soon as it is built, and the first exception ends the loop.
RECURSIVE import_loop(_, _, _, _)
import_loop(triggers, triggers_data, time, i) ==
    IF i > Len(triggers_data) THEN [store |-> triggers, failed |-> FALSE]
    ELSE IF Raises(triggers_data[i]) THEN [store |-> triggers, failed |-> TRUE]
    ELSE import_loop(Append(triggers, from_dict(triggers_data[i], time)),
                     triggers_data, time, i + 1)

\* import_triggers on a file: open() raises when there is none
import_triggers(triggers, f, time) ==
    IF ~f.exists THEN [store |-> triggers, failed |-> TRUE]
    ELSE import_loop(triggers, f.data, time, 1)

(* ------------------------------- inputs -------------------------------- *)
MachineIds == {"VF2_01", "ST10_01"}
RuleNames == {default_rules[i].name : i \in 1..Len(default_rules)}
Actions == {Str("Manual resolution"), Str("replaced bearing")}
\* trigger types resolve_trigger is called with: two that records of the
\* store-level specifications raise and one they never raise
ResolveTypes == {"Critical Vibration", "High Temperature", "Low RUL"}

SensorFields ==
    {"vibration_rms", "servo_temp", "oil_temp", "head_temp", "coolant_temp",
     "motor_current", "spindle_current", "spindle_torque", "quality_flag",
     "state", "anomaly_detected", "rul_hours"}

\* sample values of each sensor field: on and past the rule's threshold, and
\* a value the rule's comparison cannot handle
FieldValues ==
    [f \in SensorFields |->
        CASE f = "vibration_rms" -> {Num(critical_vibration), Num(critical_vibration + 1), NoneV}
          [] f \in {"servo_temp", "oil_temp", "head_temp", "coolant_temp"} ->
                {Num(high_temp + 1), NoneV}
          [] f \in {"motor_current", "spindle_current", "spindle_torque"} ->
                {Num(current_limit + 1), Str("n/a")}
          [] f = "quality_flag" -> {Str("ok"), Str("scrap"), NoneV}
          [] f = "state" -> {Str("fault"), Str("cutting")}
          [] f = "anomaly_detected" -> {Bool(TRUE), Bool(FALSE)}
          [] f = "rul_hours" -> {Num(rul_limit - 1), Num(rul_limit), NoneV}]

\* the values the store-level specifications give a sensor field
StoreValues ==
    [f \in SensorFields |->
        IF f = "vibration_rms" THEN {Num(critical_vibration + 1), NoneV}
        ELSE {Num(high_temp + 1)}]

\* the telemetry dict with machine id m (Absent: no such key) and no sensor field
MakeData(m) ==
    [f \in SensorFields \cup {"machine_id"} |-> IF f = "machine_id" THEN m ELSE Absent]

Present(data) == Cardinality({f \in SensorFields : data[f] # Absent})

\* S and every record of S given values for at most k of the fields
RECURSIVE Fill(_, _, _, _)
Fill(S, fields, k, values) ==
    IF fields = {} THEN S
    ELSE LET f == CHOOSE x \in fields : TRUE IN
         Fill(S \cup {[d EXCEPT ![f] = v] : d \in {e \in S : Present(e) < k}, v \in values[f]},
              fields \ {f}, k, values)

MachineValues == {Str(x) : x \in MachineIds} \cup {Absent}

\* records the store-level specifications submit, and those of the evaluator's
Records ==
    Fill({MakeData(m) : m \in MachineValues}, {"vibration_rms", "servo_temp"},
         MaxFields, StoreValues)
\* records the concurrent workers are handed
ConcRecords ==
    Fill({MakeData(m) : m \in MachineValues}, {"vibration_rms"}, MaxFields, StoreValues)
EvalRecords == Fill({MakeData(m) : m \in MachineValues}, SensorFields, MaxFields, FieldValues)

\* records the dispatch specification submits: one machine, a critical and a
\* high rule
DispatchRecords ==
    Fill({MakeData(m) : m \in {Str("VF2_01"), Absent}}, {"vibration_rms", "servo_temp"},
         MaxFields, StoreValues)

\* records the rule-registry specification submits
RuleRecords ==
    Fill({MakeData(m) : m \in {Str("VF2_01"), Absent}}, {"vibration_rms", "quality_flag"},
         MaxFields, FieldValues)

\* rules add_rule is called with: the name of a default rule with other
\* fields, one new name twice with different fields, a rule whose condition
\* raises, and a rule of a severity escalation_config has no entry for
CustomRules ==
    {AlertRule("Critical Vibration", "always", "low", 1, "Replacement rule"),
     AlertRule("Door Open", "always", "low", 1, "Door open"),
     AlertRule("Door Open", "always", "high", 3, "Door ajar"),
     AlertRule("Probe", "broken", "high", 3, "Probe check"),
     AlertRule("Audit", "always", "urgent", 5, "Audit")}

\* the days get_trigger_statistics is called with: the default and none
StatDays == {0, 7}

\* the channels of send_alerts, and the sets of them that raise during a call
ChannelNames == {"email", "sms", "dashboard", "stop_machine"}
FailingSets == {F \in SUBSET ChannelNames : Cardinality(F) <= MaxFailing}

\* records of snapshot files written elsewhere: two well-formed ones and one
\* of each malformed kind
GoodRecord ==
    [machine_id |-> Str("VF2_01"), trigger_type |-> Str("Critical Vibration"),
     severity |-> Str("critical"), description |-> Str("Vibration exceeds critical threshold"),
     timestamp |-> Iso(0, ""), resolved |-> Bool(FALSE),
     resolution_time |-> NoneV, resolution_action |-> NoneV]

ExternalRecords ==
    {GoodRecord,
     [GoodRecord EXCEPT !.resolved = Bool(TRUE), !.resolution_time = Iso(0, ".500000"),
                        !.resolution_action = Str("replaced bearing")],
     [GoodRecord EXCEPT !.description = Absent],
     [GoodRecord EXCEPT !.timestamp = Str("yesterday")],
     [GoodRecord EXCEPT !.resolved = Bool(TRUE)]}

\* A snapshot another system exported holds, among its well-formed records,
\* at most one unresolved trigger per key.
SnapshotOk(triggers_data) ==
    \A i, j \in 1..Len(triggers_data) :
        (/\ i < j
         /\ ~Raises(triggers_data[i]) /\ ~Raises(triggers_data[j])
         /\ triggers_data[i].machine_id = triggers_data[j].machine_id
         /\ triggers_data[i].trigger_type = triggers_data[j].trigger_type)
            => (Truthy(triggers_data[i].resolved) \/ Truthy(triggers_data[j].resolved))

\* a file holding the JSON list triggers_data, and a path with no file
File(triggers_data) == [exists |-> TRUE, data |-> triggers_data]
NoFile == [exists |-> FALSE, data |-> <<>>]

(* ------------------------- calls and results --------------------------- *)
NoData == MakeData(Absent)

\* arguments of add_rule and get_trigger_statistics, and the channels whose
\* body raises during the call
Args(rule, days, failing) == [rule |-> rule, days |-> days, failing |-> failing]
NoRule == AlertRule("", "", "", 0, "")
NoArgs == Args(NoRule, 0, {})

\* a handler call with its arguments (blank where the handler takes none)
Call(name, data, machine_id, trigger_type, action, source) ==
    [name |-> name, data |-> data, machine_id |-> machine_id,
     trigger_type |-> trigger_type, action |-> action, source |-> source,
     arg |-> NoArgs]
NoOp == Call("", NoData, "", "", NoneV, NoFile)

\* the state a call began in
Pre(triggers, log, rules) ==
    [active_triggers |-> triggers, alerts |-> log, alert_rules |-> rules]
NoPre == Pre(<<>>, <<>>, <<>>)

\* what a call gave back: the exception it raised ("" for none), the value it
\* returned, and the error records it logged
Result(exc, val, logged) == [exc |-> exc, val |-> val, logged |-> logged]

\* the logging.error records of AlertRule.evaluate during one evaluation:
\* the names of the rules whose condition raised, in order
RECURSIVE evaluate_errors(_, _, _)
evaluate_errors(rules, data, i) ==
    IF i > Len(rules) THEN <<>>
    ELSE (IF Condition(rules[i].condition, data) = "raise" THEN <<rules[i].name>> ELSE <<>>)
         \o evaluate_errors(rules, data, i + 1)

(* ------------------------------ workers -------------------------------- *)
NumWorkers == 2
Workers == 1..NumWorkers

\* a call a worker runs
Job(name, data, machine_id, trigger_type, action) ==
    Call(name, data, machine_id, trigger_type, action, NoFile)
NoJob == NoOp

\* locals of a handler in progress: the rules still to go through, the
\* positions of the triggers created, the trigger get_active_trigger found,
\* the value resolve_trigger returned, the exception raised
NoLocals == [triggered_rules |-> <<>>, triggers_created |-> <<>>, trigger |-> 0,
             returned |-> FALSE, exc |-> ""]

(* ------------------------------- Init ---------------------------------- *)
InitSystem ==
    /\ alert_rules = setup_default_rules(<<>>, 1)
    /\ active_triggers = <<>>
    /\ now = 0
    /\ file = NoFile
    /\ alerts = <<>>
    /\ op = NoOp
    /\ ret = Result("", NoneV, <<>>)
    /\ pre = NoPre
    /\ pc = [w \in Workers |-> "idle"]
    /\ job = [w \in Workers |-> NoJob]
    /\ locals = [w \in Workers |-> NoLocals]
    /\ jobs = 0

Init == InitSystem /\ record = NoData

worker_vars == <<pc, job, locals, jobs>>

(* ----------------- handlers called one after the other ----------------- *)
\* the clock advances
Tick ==
    /\ op = NoOp
    /\ now < MaxTime
    /\ now' = now + 1
    /\ UNCHANGED <<alert_rules, active_triggers, file, alerts, op, ret, pre, record, worker_vars>>

\* AndonSystem.evaluate_sensor_data(data)
EvaluateSensorData(data) ==
    /\ op = NoOp
    /\ \E triggered_rules \in {evaluate_sensor_data(alert_rules, data)} :
       /\ op' = Call("evaluate_sensor_data", data, "", "", NoneV, NoFile)
       /\ pre' = Pre(active_triggers, alerts, alert_rules)
       /\ ret' = Result("", triggered_rules, evaluate_errors(alert_rules, data, 1))
       /\ UNCHANGED <<alert_rules, active_triggers, now, file, alerts, record, worker_vars>>

\* AndonSystem.process_sensor_data(data), the channels of failing raising
ProcessSensorData(data, failing) ==
    /\ op = NoOp
    /\ \E r \in {process_sensor_data(alert_rules, active_triggers, alerts, data, now, failing)} :
       /\ Len(r.store) <= MaxTriggers
       /\ op' = [Call("process_sensor_data", data, "", "", NoneV, NoFile)
                    EXCEPT !.arg = Args(NoRule, 0, failing)]
       /\ pre' = Pre(active_triggers, alerts, alert_rules)
       /\ active_triggers' = r.store
       /\ alerts' = r.alerts
       /\ ret' = Result(r.exc, IF r.exc = "" THEN r.created ELSE NoneV,
                        evaluate_errors(alert_rules, data, 1) \o r.logged)
       /\ UNCHANGED <<alert_rules, now, file, record, worker_vars>>

\* AndonSystem.resolve_trigger(machine_id, trigger_type, action)
ResolveTrigger(machine_id, trigger_type, action) ==
    /\ op = NoOp
    /\ \E r \in {resolve_trigger(active_triggers, machine_id, trigger_type, action, now)} :
       /\ op' = Call("resolve_trigger", NoData, machine_id, trigger_type, action, NoFile)
       /\ pre' = Pre(active_triggers, alerts, alert_rules)
       /\ active_triggers' = r.store
       /\ ret' = Result("", r.val, <<>>)
       /\ UNCHANGED <<alert_rules, now, file, alerts, record, worker_vars>>

\* AndonSystem.add_rule(name, condition, severity, escalation_level, description)
AddRule(rule) ==
    /\ op = NoOp
    /\ op' = [Call("add_rule", NoData, "", "", NoneV, NoFile) EXCEPT !.arg = Args(rule, 0, {})]
    /\ pre' = Pre(active_triggers, alerts, alert_rules)
    /\ alert_rules' = add_rule(alert_rules, rule)
    /\ ret' = Result("", NoneV, <<>>)
    /\ UNCHANGED <<active_triggers, now, file, alerts, record, worker_vars>>

\* AndonSystem.get_trigger_statistics(days)
GetTriggerStatistics(days) ==
    /\ op = NoOp
    /\ op' = [Call("get_trigger_statistics", NoData, "", "", NoneV, NoFile)
                 EXCEPT !.arg = Args(NoRule, days, {})]
    /\ pre' = Pre(active_triggers, alerts, alert_rules)
    /\ ret' = Result("", get_trigger_statistics(active_triggers, days, now), <<>>)
    /\ UNCHANGED <<alert_rules, active_triggers, now, file, alerts, record, worker_vars>>

\* AndonSystem.get_active_triggers(machine_id)
GetActiveTriggers(machine_id) ==
    /\ op = NoOp
    /\ op' = Call("get_active_triggers", NoData, machine_id, "", NoneV, NoFile)
    /\ pre' = Pre(active_triggers, alerts, alert_rules)
    /\ ret' = Result("", get_active_triggers(active_triggers, machine_id), <<>>)
    /\ UNCHANGED <<alert_rules, active_triggers, now, file, alerts, record, worker_vars>>

\* AndonSystem.export_triggers()
ExportTriggers ==
    /\ op = NoOp
    /\ op' = Call("export_triggers", NoData, "", "", NoneV, NoFile)
    /\ pre' = Pre(active_triggers, alerts, alert_rules)
    /\ file' = File(export_triggers(active_triggers))
    /\ ret' = Result("", NoneV, <<>>)
    /\ UNCHANGED <<alert_rules, active_triggers, now, alerts, record, worker_vars>>

\* AndonSystem.import_triggers(filepath), f being the file at that path
ImportTriggers(f) ==
    /\ op = NoOp
    /\ \E r \in {import_triggers(active_triggers, f, now)} :
       /\ Len(r.store) <= MaxTriggers
       /\ op' = Call("import_triggers", NoData, "", "", NoneV, f)
       /\ pre' = Pre(active_triggers, alerts, alert_rules)
       /\ active_triggers' = r.store
       /\ ret' = Result("", NoneV, IF r.failed THEN <<"Failed to import triggers">> ELSE <<>>)
       /\ UNCHANGED <<alert_rules, now, file, alerts, record, worker_vars>>

\* AndonSystem(): a new system is constructed, with the default rules and an
\* empty trigger list; the file on disk stays
NewSystem ==
    /\ op = NoOp
    /\ active_triggers # <<>>
    /\ alert_rules' = setup_default_rules(<<>>, 1)
    /\ active_triggers' = <<>>
    /\ alerts' = <<>>
    /\ UNCHANGED <<now, file, op, ret, pre, record, worker_vars>>

\* andon = AndonSystem(): the program goes on with a new instance
Construct ==
    /\ op = NoOp
    /\ \E r \in {AndonSystem(active_triggers)} :
       /\ op' = Call("__init__", NoData, "", "", NoneV, NoFile)
       /\ pre' = Pre(active_triggers, alerts, alert_rules)
       /\ active_triggers' = r.active_triggers
       /\ alert_rules' = r.alert_rules
       /\ alerts' = r.alerts
       /\ ret' = Result("", NoneV, <<>>)
    /\ UNCHANGED <<now, file, record, worker_vars>>

\* the caller has taken the result of the call that ended
Return ==
    /\ op # NoOp
    /\ op' = NoOp
    /\ ret' = Result("", NoneV, <<>>)
    /\ pre' = NoPre
    /\ UNCHANGED <<alert_rules, active_triggers, now, file, alerts, record, worker_vars>>

\* process_sensor_data and resolve_trigger, called one at a time
NextCore ==
    \/ Tick
    \/ Return
    \/ \E data \in Records : ProcessSensorData(data, {})
    \/ \E m \in MachineIds, t \in ResolveTypes, a \in Actions : ResolveTrigger(m, t, a)

SpecCore == Init /\ [][NextCore]_vars

\* the same with snapshots exported and imported
Next ==
    \/ NextCore
    \/ ExportTriggers
    \/ ImportTriggers(file)
    \/ \E n \in 1..MaxSnapshot : \E triggers_data \in [1..n -> ExternalRecords] :
            SnapshotOk(triggers_data) /\ ImportTriggers(File(triggers_data))

Spec == Init /\ [][Next]_vars

\* a snapshot exported by one system and imported by the system constructed
\* after it, on vibration records
NextRestart ==
    \/ Tick
    \/ Return
    \/ \E data \in ConcRecords : ProcessSensorData(data, {})
    \/ \E m \in MachineIds, a \in Actions : ResolveTrigger(m, "Critical Vibration", a)
    \/ ExportTriggers
    \/ NewSystem
    \/ ImportTriggers(file)

SpecRestart == Init /\ [][NextRestart]_vars

\* the statistics of a store that process_sensor_data and resolve_trigger fill
NextStats ==
    \/ NextCore
    \/ \E days \in StatDays : GetTriggerStatistics(days)

SpecStats == Init /\ [][NextStats]_vars

\* the store's queries next to process_sensor_data and resolve_trigger
NextQuery ==
    \/ NextCore
    \/ \E m \in MachineIds \cup {""} : GetActiveTriggers(m)

SpecQuery == Init /\ [][NextQuery]_vars

\* systems constructed one after the other, each given rules and records and
\* asked for its active triggers and statistics
NextFresh ==
    \/ Return
    \/ Construct
    \/ \E rule \in CustomRules : AddRule(rule)
    \/ \E data \in RuleRecords : ProcessSensorData(data, {})
    \/ \E m \in {"", "VF2_01"} : GetActiveTriggers(m)
    \/ \E days \in StatDays : GetTriggerStatistics(days)

SpecFresh == Init /\ [][NextFresh]_vars

\* the rule registry: rules are added, records evaluated and processed
NextRules ==
    \/ Return
    \/ \E rule \in CustomRules : AddRule(rule)
    \/ \E data \in RuleRecords : EvaluateSensorData(data)
    \/ \E data \in RuleRecords : ProcessSensorData(data, {})

SpecRules == Init /\ [][NextRules]_vars

\* dispatch with channels whose body raises
NextDispatch ==
    \/ Return
    \/ \E data \in DispatchRecords, failing \in FailingSets : ProcessSensorData(data, failing)
    \/ \E t \in ResolveTypes, a \in Actions : ResolveTrigger("VF2_01", t, a)

SpecDispatch == Init /\ [][NextDispatch]_vars

\* the evaluator alone, on a record over every sensor field
InitEval == InitSystem /\ record \in EvalRecords

NextEval == EvaluateSensorData(record)

SpecEval == InitEval /\ [][NextEval]_vars

\* one record over every sensor field, evaluated and processed
NextMissing ==
    \/ Return
    \/ EvaluateSensorData(record)
    \/ ProcessSensorData(record, {})

SpecMissing == InitEval /\ [][NextMissing]_vars

(* ------------------ handlers run by concurrent workers ----------------- *)
\* Nothing in andon_system.py takes a lock, so between two statements of a
\* handler another worker's statements can run.  A worker's step is one
\* statement: a call of get_active_trigger, list.append, send_alerts,
\* AndonTrigger.resolve.
seq_vars == <<alert_rules, now, file, op, ret, pre, record>>

\* worker w enters process_sensor_data(data): line 188
StartProcess(w, data) ==
    /\ pc[w] = "idle"
    /\ jobs < MaxJobs
    /\ jobs' = jobs + 1
    /\ job' = [job EXCEPT ![w] = Job("process_sensor_data", data, "", "", NoneV)]
    /\ locals' = [locals EXCEPT ![w] =
                    [NoLocals EXCEPT !.triggered_rules = evaluate_sensor_data(alert_rules, data)]]
    /\ pc' = [pc EXCEPT ![w] = "lookup"]
    /\ UNCHANGED <<active_triggers, alerts, seq_vars>>

\* lines 190-194 and 207: the next triggered rule, if any, is looked up
ProcessLookup(w) ==
    /\ pc[w] = "lookup"
    /\ job[w].name = "process_sensor_data"
    /\ IF locals[w].triggered_rules = <<>>
       THEN /\ pc' = [pc EXCEPT ![w] = "done"]
            /\ UNCHANGED locals
       ELSE IF job[w].data["machine_id"] = Absent
       THEN /\ pc' = [pc EXCEPT ![w] = "done"]
            /\ locals' = [locals EXCEPT ![w].exc = "KeyError"]
       ELSE \E existing_trigger \in
                {get_active_trigger(active_triggers, job[w].data["machine_id"].s,
                                    Head(locals[w].triggered_rules).name)} :
            IF existing_trigger # 0
            THEN /\ locals' = [locals EXCEPT ![w].triggered_rules = Tail(@)]
                 /\ UNCHANGED pc
            ELSE /\ pc' = [pc EXCEPT ![w] = "create"]
                 /\ UNCHANGED locals
    /\ UNCHANGED <<active_triggers, alerts, job, jobs, seq_vars>>

\* lines 196-202: create_andon_trigger appends the new trigger
ProcessCreate(w) ==
    /\ pc[w] = "create"
    /\ Len(active_triggers) < MaxTriggers
    /\ LET rule == Head(locals[w].triggered_rules) IN
       active_triggers' = create_andon_trigger(active_triggers, job[w].data["machine_id"].s,
                                               rule.name, rule.severity, rule.description, now)
    /\ locals' = [locals EXCEPT ![w].trigger = Len(active_triggers) + 1,
                                ![w].triggers_created = Append(@, Len(active_triggers) + 1)]
    /\ pc' = [pc EXCEPT ![w] = "send"]
    /\ UNCHANGED <<alerts, job, jobs, seq_vars>>

\* line 205: send_alerts for the trigger just created
ProcessSend(w) ==
    /\ pc[w] = "send"
    /\ \E sent \in {send_alerts(active_triggers[locals[w].trigger], {})} :
       /\ alerts' = alerts \o sent.alerts
       /\ active_triggers' = [active_triggers EXCEPT ![locals[w].trigger] = sent.trigger]
    /\ locals' = [locals EXCEPT ![w].triggered_rules = Tail(@)]
    /\ pc' = [pc EXCEPT ![w] = "lookup"]
    /\ UNCHANGED <<job, jobs, seq_vars>>

\* worker w enters resolve_trigger(machine_id, trigger_type, action)
StartResolve(w, machine_id, trigger_type, action) ==
    /\ pc[w] = "idle"
    /\ jobs < MaxJobs
    /\ jobs' = jobs + 1
    /\ job' = [job EXCEPT ![w] = Job("resolve_trigger", NoData, machine_id, trigger_type, action)]
    /\ locals' = [locals EXCEPT ![w] = NoLocals]
    /\ pc' = [pc EXCEPT ![w] = "lookup"]
    /\ UNCHANGED <<active_triggers, alerts, seq_vars>>

\* lines 220-221 and 225: the trigger is looked up
ResolveLookup(w) ==
    /\ pc[w] = "lookup"
    /\ job[w].name = "resolve_trigger"
    /\ \E trigger \in {get_active_trigger(active_triggers, job[w].machine_id,
                                          job[w].trigger_type)} :
       /\ locals' = [locals EXCEPT ![w].trigger = trigger]
       /\ pc' = [pc EXCEPT ![w] = IF trigger # 0 THEN "mark" ELSE "done"]
    /\ UNCHANGED <<active_triggers, alerts, job, jobs, seq_vars>>

\* lines 222-224: the trigger found is marked resolved, whatever it has become
ResolveMark(w) ==
    /\ pc[w] = "mark"
    /\ active_triggers' = [active_triggers EXCEPT
                              ![locals[w].trigger] = resolve(@, job[w].action, now)]
    /\ locals' = [locals EXCEPT ![w].returned = TRUE]
    /\ pc' = [pc EXCEPT ![w] = "done"]
    /\ UNCHANGED <<alerts, job, jobs, seq_vars>>

\* the caller of worker w's handler has its result
Finish(w) ==
    /\ pc[w] = "done"
    /\ pc' = [pc EXCEPT ![w] = "idle"]
    /\ job' = [job EXCEPT ![w] = NoJob]
    /\ locals' = [locals EXCEPT ![w] = NoLocals]
    /\ UNCHANGED <<active_triggers, alerts, jobs, seq_vars>>

\* the clock advances while the workers run
ConcTick ==
    /\ now < MaxTime
    /\ now' = now + 1
    /\ UNCHANGED <<alert_rules, active_triggers, file, alerts, op, ret, pre, record, worker_vars>>

NextConc ==
    \/ ConcTick
    \/ \E w \in Workers :
        \/ \E data \in ConcRecords : StartProcess(w, data)
        \/ ProcessLookup(w)
        \/ ProcessCreate(w)
        \/ ProcessSend(w)
        \/ \E m \in MachineIds, t \in ResolveTypes, a \in Actions : StartResolve(w, m, t, a)
        \/ ResolveLookup(w)
        \/ ResolveMark(w)
        \/ Finish(w)

SpecConc == Init /\ [][NextConc]_vars

(* ------------- two workers on records of different machines ----------- *)
\* the two workers of a pair
Pair == {1, 2}

\* two threads are started, worker 1 in process_sensor_data(data1) and worker
\* 2 in process_sensor_data(data2); pre keeps the state they start from
StartPair(data1, data2) ==
    /\ op = NoOp
    /\ \A w \in Workers : pc[w] = "idle"
    /\ op' = Call("process_pair", NoData, "", "", NoneV, NoFile)
    /\ pre' = Pre(active_triggers, alerts, alert_rules)
    /\ job' = [w \in Workers |->
                 IF w \notin Pair THEN job[w]
                 ELSE Job("process_sensor_data", IF w = 1 THEN data1 ELSE data2, "", "", NoneV)]
    /\ locals' = [w \in Workers |->
                    IF w \notin Pair THEN locals[w]
                    ELSE [NoLocals EXCEPT !.triggered_rules =
                            evaluate_sensor_data(alert_rules, IF w = 1 THEN data1 ELSE data2)]]
    /\ pc' = [w \in Workers |-> IF w \in Pair THEN "lookup" ELSE pc[w]]
    /\ UNCHANGED <<alert_rules, active_triggers, now, file, alerts, ret, record, jobs>>

\* both threads have been joined
JoinPair ==
    /\ op.name = "process_pair"
    /\ \A w \in Pair : pc[w] = "done"
    /\ op' = NoOp
    /\ pre' = NoPre
    /\ pc' = [w \in Workers |-> "idle"]
    /\ job' = [w \in Workers |-> NoJob]
    /\ locals' = [w \in Workers |-> NoLocals]
    /\ UNCHANGED <<alert_rules, active_triggers, now, file, alerts, ret, record, jobs>>

\* a call made outside the two workers' run has returned
ReturnSeq == op.name # "process_pair" /\ Return

\* records of one machine
RecordsOf(machine_id) == {data \in ConcRecords : data["machine_id"] = Str(machine_id)}

\* a store filled by calls made one after the other, then two workers
\* processing records of two different machines statement by statement
NextPar ==
    \/ Tick
    \/ ReturnSeq
    \/ \E data \in ConcRecords : ProcessSensorData(data, {})
    \/ \E m \in MachineIds, a \in Actions : ResolveTrigger(m, "Critical Vibration", a)
    \/ \E data1 \in RecordsOf("VF2_01"), data2 \in RecordsOf("ST10_01") : StartPair(data1, data2)
    \/ \E w \in Workers : ProcessLookup(w) \/ ProcessCreate(w) \/ ProcessSend(w)
    \/ JoinPair

SpecPar == Init /\ [][NextPar]_vars

(* ======================================================================= *)
(*                               properties                                *)
(* ======================================================================= *)
SameKey(a, b) == a.machine_id = b.machine_id /\ a.trigger_type = b.trigger_type

\* positions of the unresolved triggers of key (machine_id, trigger_type)
Unresolved(triggers, machine_id, trigger_type) ==
    {i \in 1..Len(triggers) :
        /\ triggers[i].machine_id = machine_id
        /\ triggers[i].trigger_type = trigger_type
        /\ triggers[i].resolved = FALSE}

\* positions in alert_rules of the rules whose condition is true of data
Matched(data) == {i \in 1..Len(alert_rules) : Condition(alert_rules[i].condition, data) = "true"}

Called(name) == op.name = name

(* ---- C1 ---- *)
\* C1: with process_sensor_data and resolve_trigger called one after the
\* other from an empty store, every key (machine_id, trigger_type) has at
\* most one unresolved trigger.
C1_AtMostOneUnresolvedPerKey ==
    \A m \in MachineIds, t \in RuleNames :
        Cardinality(Unresolved(active_triggers, m, t)) <= 1

\* a record was processed while the store holds a resolved and a later
\* unresolved trigger of one key
C1_Witness ==
    /\ Called("process_sensor_data")
    /\ \E i, j \in 1..Len(active_triggers) :
        /\ i < j
        /\ SameKey(active_triggers[i], active_triggers[j])
        /\ active_triggers[i].resolved
        /\ ~active_triggers[j].resolved

(* ---- C2 ---- *)
\* C2: with workers running process_sensor_data concurrently, no interleaving
\* reaches a state with two unresolved triggers of one key.
C2_NoTwoLiveTriggers ==
    \A i, j \in 1..Len(active_triggers) :
        (i < j /\ SameKey(active_triggers[i], active_triggers[j]))
            => (active_triggers[i].resolved \/ active_triggers[j].resolved)

(* ---- C3 ---- *)
\* C3: of two workers that called resolve_trigger and found the same
\* unresolved trigger, only one marks it and returns True.
C3_ResolvedByOneCall ==
    \A v, w \in Workers :
        (/\ v # w
         /\ pc[v] = "done" /\ pc[w] = "done"
         /\ job[v].name = "resolve_trigger" /\ job[w].name = "resolve_trigger"
         /\ locals[v].trigger # 0
         /\ locals[v].trigger = locals[w].trigger)
            => ~(locals[v].returned /\ locals[w].returned)

(* ---- C4 ---- *)
\* every rule the record matches has an unresolved trigger for the record's machine
AllMatchedActive(triggers, data) ==
    \A i \in Matched(data) :
        /\ data["machine_id"] # Absent
        /\ Unresolved(triggers, data["machine_id"].s, alert_rules[i].name) # {}

\* C4: process_sensor_data on a record all of whose matched rules already
\* have an unresolved trigger creates nothing, returns an empty list and
\* leaves the store as it was; and after a call that did not raise, the
\* record is such a record, so submitting it again creates nothing.
C4_NoDuplicateTrigger ==
    Called("process_sensor_data") =>
        /\ AllMatchedActive(pre.active_triggers, op.data) =>
              /\ ret.exc = ""
              /\ ret.val = <<>>
              /\ active_triggers = pre.active_triggers
        /\ ret.exc = "" => AllMatchedActive(active_triggers, op.data)

\* a record that matches a rule was processed and nothing was created
C4_Witness ==
    /\ Called("process_sensor_data")
    /\ Matched(op.data) # {}
    /\ ret.exc = ""
    /\ ret.val = <<>>
    /\ active_triggers = pre.active_triggers

(* ---- C5 ---- *)
\* C5: resolve_trigger returns True exactly when the key had an unresolved
\* trigger before the call, and then one trigger of the key has become
\* resolved, with resolution_time the time of the call and resolution_action
\* the action given, every other trigger being as before.
C5_ResolveMarksOne ==
    Called("resolve_trigger") =>
        LET before == pre.active_triggers
            U == Unresolved(before, op.machine_id, op.trigger_type)
        IN /\ ret.exc = ""
           /\ ret.val = (U # {})
           /\ Len(active_triggers) = Len(before)
           /\ U = {} => active_triggers = before
           /\ U # {} =>
                \E i \in U :
                    /\ active_triggers[i] =
                          [before[i] EXCEPT !.resolved = TRUE,
                                            !.resolution_time = Dt(now),
                                            !.resolution_action = op.action]
                    /\ \A j \in 1..Len(before) : j # i => active_triggers[j] = before[j]

\* a call of resolve_trigger returned True, the store holding another trigger too
C5_Witness ==
    /\ Called("resolve_trigger")
    /\ ret.val = TRUE
    /\ Len(active_triggers) > 1

(* ---- C6 ---- *)
\* C6: resolve_trigger on a key without an unresolved trigger returns False,
\* raises nothing and leaves every trigger as it was.
C6_ResolveNothingToDo ==
    (/\ Called("resolve_trigger")
     /\ Unresolved(pre.active_triggers, op.machine_id, op.trigger_type) = {})
        => /\ ret.exc = ""
           /\ ret.val = FALSE
           /\ active_triggers = pre.active_triggers

\* resolve_trigger was called on a key whose only trigger is already resolved
C6_Witness ==
    /\ Called("resolve_trigger")
    /\ ret.val = FALSE
    /\ \E i \in 1..Len(active_triggers) :
        /\ active_triggers[i].machine_id = op.machine_id
        /\ active_triggers[i].trigger_type = op.trigger_type
        /\ active_triggers[i].resolved

(* ---- C7 ---- *)
\* C7: import_triggers on a snapshot with a malformed record leaves the
\* trigger list exactly as it was before the call.
C7_ImportIsAtomic ==
    (/\ Called("import_triggers")
     /\ op.source.exists
     /\ \E i \in 1..Len(op.source.data) : Raises(op.source.data[i]))
        => active_triggers = pre.active_triggers

(* ---- C8 ---- *)
\* C8: import_triggers of what export_triggers wrote for the store yields a
\* store equal to it: the same triggers in the same order, none lost, none
\* duplicated.
C8_ExportImportRoundTrip ==
    (/\ Called("import_triggers")
     /\ op.source = File(export_triggers(pre.active_triggers)))
        => active_triggers = pre.active_triggers

\* import_triggers of an exported file into a system whose trigger list is
\* empty yields the triggers the file was exported from
RoundTripIntoEmptyStore ==
    (/\ Called("import_triggers")
     /\ op.source = file /\ file.exists
     /\ pre.active_triggers = <<>>)
        => /\ ret.logged = <<>>
           /\ export_triggers(active_triggers) = file.data

(* ---- C9 ---- *)
\* C9: in every state, those reached through import_triggers included, an
\* unresolved trigger is the only unresolved trigger of its key.
C9_AtMostOneUnresolvedWithImport ==
    \A i \in 1..Len(active_triggers) :
        active_triggers[i].resolved = FALSE =>
            Unresolved(active_triggers, active_triggers[i].machine_id,
                       active_triggers[i].trigger_type) = {i}

(* ---- C10 ---- *)
\* C10: evaluate_sensor_data returns the registered rules whose condition is
\* true of the record, each once and in registration order, and none whose
\* condition is false or raised.
C10_EvaluateReturnsMatches ==
    Called("evaluate_sensor_data") =>
        LET IsMatch(rule) == Condition(rule.condition, op.data) = "true" IN
        /\ ret.exc = ""
        /\ ret.val = SelectSeq(alert_rules, IsMatch)

\* a record was evaluated for which one rule matched and another raised
C10_Witness ==
    /\ Called("evaluate_sensor_data")
    /\ Len(ret.val) > 0
    /\ Len(ret.logged) > 0

(* ---- C11 ---- *)
\* positions in alert_rules of the rules whose condition raises on data
Raised(data) == {i \in 1..Len(alert_rules) : Condition(alert_rules[i].condition, data) = "raise"}

\* the members of a sequence
Range(seq) == {seq[i] : i \in 1..Len(seq)}

\* C11: a rule whose condition raises counts as a non-match and is logged;
\* its exception leaves neither evaluate_sensor_data nor process_sensor_data
\* (the only exception that leaves process_sensor_data is the KeyError of a
\* record without machine_id), and the rules registered after it are still
\* evaluated: those that match are returned, and get their trigger.
C11_RaisingConditionIsNonMatch ==
    (Called("evaluate_sensor_data") \/ Called("process_sensor_data")) =>
        /\ Range(ret.logged) = {alert_rules[i].name : i \in Raised(op.data)}
        /\ Len(ret.logged) = Cardinality(Raised(op.data))
        /\ Called("evaluate_sensor_data") =>
              /\ ret.exc = ""
              /\ Range(ret.val) = {alert_rules[i] : i \in Matched(op.data)}
              /\ \A i \in Raised(op.data) : alert_rules[i] \notin Range(ret.val)
        /\ Called("process_sensor_data") =>
              /\ ret.exc # "" =>
                    /\ ret.exc = "KeyError"
                    /\ op.data["machine_id"] = Absent
                    /\ Matched(op.data) # {}
              /\ ret.exc = "" =>
                    /\ \A j \in Matched(op.data) :
                          Unresolved(active_triggers, op.data["machine_id"].s,
                                     alert_rules[j].name) # {}
                    /\ \A k \in Range(ret.val) :
                          \E j \in Matched(op.data) :
                              active_triggers[k].trigger_type = alert_rules[j].name

\* a record was processed on which one rule raised and a rule registered
\* after it matched and got its trigger
C11_Witness ==
    /\ Called("process_sensor_data")
    /\ ret.exc = ""
    /\ \E i \in Raised(op.data), j \in Matched(op.data) :
          /\ i < j
          /\ \E k \in Range(ret.val) : active_triggers[k].trigger_type = alert_rules[j].name

(* ---- C12 ---- *)
\* C12: add_rule with a name already registered raises nothing and leaves
\* the rule list as it was, the rule of that name keeping its condition,
\* severity, escalation_level and description; every name occurs once.
C12_AddRuleIdempotent ==
    /\ \A i, j \in 1..Len(alert_rules) :
          alert_rules[i].name = alert_rules[j].name => i = j
    /\ Called("add_rule") =>
          /\ ret.exc = ""
          /\ (\E i \in 1..Len(pre.alert_rules) : pre.alert_rules[i].name = op.arg.rule.name)
                => alert_rules = pre.alert_rules

\* add_rule was called with a registered name and other fields
C12_Witness ==
    /\ Called("add_rule")
    /\ \E i \in 1..Len(pre.alert_rules) :
          /\ pre.alert_rules[i].name = op.arg.rule.name
          /\ pre.alert_rules[i] # op.arg.rule
          /\ alert_rules[i] = pre.alert_rules[i]

(* ---- C13 ---- *)
\* the channel calls of one send_alerts for each trigger from position k on
RECURSIVE Dispatched(_, _, _)
Dispatched(triggers, k, failing) ==
    IF k > Len(triggers) THEN <<>>
    ELSE send_alerts(triggers[k], failing).alerts \o Dispatched(triggers, k + 1, failing)

\* C13: the channel calls process_sensor_data makes are those of one
\* send_alerts for each trigger the call created, and none for a trigger that
\* existed; a record whose matched rules all have an unresolved trigger
\* causes no channel call, and no other method calls a channel.
C13_AlertsOncePerCreatedTrigger ==
    /\ Called("process_sensor_data") =>
          /\ alerts = pre.alerts \o Dispatched(active_triggers, Len(pre.active_triggers) + 1,
                                               op.arg.failing)
          /\ \A k \in (Len(pre.active_triggers) + 1)..Len(active_triggers) :
                send_alerts(active_triggers[k], op.arg.failing).alerts # <<>>
          /\ AllMatchedActive(pre.active_triggers, op.data) => alerts = pre.alerts
    /\ (op # NoOp /\ ~Called("process_sensor_data")) => alerts = pre.alerts

\* a record matching a rule whose trigger was dispatched earlier and is still
\* unresolved was processed
C13_Witness ==
    /\ Called("process_sensor_data")
    /\ Matched(op.data) # {}
    /\ ret.exc = ""
    /\ pre.alerts # <<>>
    /\ active_triggers = pre.active_triggers
    /\ alerts = pre.alerts

(* ---- C14 ---- *)
\* the channel calls made since the call began
NewAlerts == SubSeq(alerts, Len(pre.alerts) + 1, Len(alerts))

\* the triggers the call appended
Created == (Len(pre.active_triggers) + 1)..Len(active_triggers)

\* the channels escalation_config enables for a severity
Enabled(severity) ==
    {c \in ChannelNames : ChannelOn(severity, c, c = "dashboard")}

\* C14: a channel whose body raises keeps no other enabled channel of the
\* trigger's severity from being called: every channel enabled for a created
\* trigger is called, stop_machine for a critical trigger included when
\* update_dashboard_alert raised.
C14_ChannelFailureIsolated ==
    Called("process_sensor_data") =>
        \A k \in Created : \A c \in Enabled(active_triggers[k].severity) :
            \E n \in 1..Len(NewAlerts) :
                /\ NewAlerts[n].channel = c
                /\ NewAlerts[n].machine_id = active_triggers[k].machine_id

(* ---- C15 ---- *)
\* C15: every critical trigger a call created has a stop_machine call for its
\* machine that wrote its log record, whatever the other channels of the
\* dispatch did.
C15_CriticalStopsMachine ==
    Called("process_sensor_data") =>
        \A k \in Created :
            active_triggers[k].severity = "critical" =>
                \E n \in 1..Len(NewAlerts) :
                    /\ NewAlerts[n].channel = "stop_machine"
                    /\ NewAlerts[n].machine_id = active_triggers[k].machine_id
                    /\ NewAlerts[n].done

(* ---- C16 ---- *)
\* the channels the escalation policy names for a severity, in call order
Policy(severity) ==
    CASE severity \in {"low", "medium"} -> <<"email", "dashboard">>
      [] severity = "high" -> <<"email", "sms", "dashboard">>
      [] severity = "critical" -> <<"email", "sms", "dashboard", "stop_machine">>
      [] OTHER -> <<>>

\* the policy's channels for the triggers from position k on
RECURSIVE PolicyCalls(_, _)
PolicyCalls(triggers, k) ==
    IF k > Len(triggers) THEN <<>>
    ELSE Policy(triggers[k].severity) \o PolicyCalls(triggers, k + 1)

\* the record of the demo: machine VF2_01 with vibration_rms 5.0
IsDemoRecord(data) ==
    /\ data["machine_id"] = Str("VF2_01")
    /\ data["vibration_rms"] = Num(5)
    /\ Matched(data) = {1}

\* C16: the channels called for a created trigger are those of the policy
\* for its severity (low, medium: email, dashboard; high: email, sms,
\* dashboard; critical: these and stop_machine); stop_machine is called
\* for critical triggers only; the demo record on a fresh system creates one
\* critical trigger and all four channels are called for VF2_01.
C16_ChannelsFollowPolicy ==
    (Called("process_sensor_data") /\ ret.exc = "") =>
        /\ (\A k \in Created : active_triggers[k].severity \in DOMAIN escalation_config)
              => [n \in 1..Len(NewAlerts) |-> NewAlerts[n].channel]
                    = PolicyCalls(active_triggers, Len(pre.active_triggers) + 1)
        /\ Cardinality({n \in 1..Len(NewAlerts) : NewAlerts[n].channel = "stop_machine"})
              = Cardinality({k \in Created : active_triggers[k].severity = "critical"})
        /\ (IsDemoRecord(op.data) /\ pre.active_triggers = <<>>) =>
              /\ Len(active_triggers) = 1
              /\ active_triggers[1].severity = "critical"
              /\ [n \in 1..Len(NewAlerts) |-> NewAlerts[n].channel]
                    = <<"email", "sms", "dashboard", "stop_machine">>
              /\ \A n \in 1..Len(NewAlerts) : NewAlerts[n].machine_id = "VF2_01"

\* one call created a critical trigger and a trigger of another severity of
\* the policy
C16_Witness ==
    /\ Called("process_sensor_data")
    /\ ret.exc = ""
    /\ \E k, l \in Created :
          /\ active_triggers[k].severity = "critical"
          /\ active_triggers[l].severity \in {"low", "medium", "high"}

(* ---- C20 ---- *)
\* C20: dispatch changes no trigger: after process_sensor_data the triggers
\* that existed are as they were, and each trigger created is as
\* AndonTrigger built it from the record's machine and a registered rule,
\* whichever channels were called or raised.
C20_DispatchLeavesStore ==
    Called("process_sensor_data") =>
        /\ Len(active_triggers) >= Len(pre.active_triggers)
        /\ SubSeq(active_triggers, 1, Len(pre.active_triggers)) = pre.active_triggers
        /\ \A k \in Created :
              \E i \in Matched(op.data) :
                  active_triggers[k] =
                      AndonTrigger(op.data["machine_id"].s, alert_rules[i].name,
                                   alert_rules[i].severity, alert_rules[i].description,
                                   NoneV, now)

\* a critical trigger was created and dispatched with a channel raising,
\* the store holding a trigger already
C20_Witness ==
    /\ Called("process_sensor_data")
    /\ pre.active_triggers # <<>>
    /\ op.arg.failing # {}
    /\ \E k \in Created : active_triggers[k].severity = "critical"

(* ---- C17 ---- *)
\* C17: no operation shortens the trigger list; a trigger that was resolved
\* when an operation began is the same afterwards; a trigger that was
\* unresolved is the same afterwards or was resolved by resolve_trigger, with
\* nothing but resolved, resolution_time and resolution_action changed.
C17_ResolvedIsTerminal ==
    op # NoOp =>
        /\ Len(active_triggers) >= Len(pre.active_triggers)
        /\ \A i \in 1..Len(pre.active_triggers) :
              \/ active_triggers[i] = pre.active_triggers[i]
              \/ /\ ~pre.active_triggers[i].resolved
                 /\ Called("resolve_trigger")
                 /\ active_triggers[i] =
                       [pre.active_triggers[i] EXCEPT !.resolved = TRUE,
                                                      !.resolution_time = Dt(now),
                                                      !.resolution_action = op.action]

\* resolve_trigger resolved the second trigger of a key whose first trigger
\* had been resolved with another action, and left the first as it was
C17_Witness ==
    /\ Called("resolve_trigger")
    /\ \E i, j \in 1..Len(pre.active_triggers) :
          /\ i < j
          /\ SameKey(pre.active_triggers[i], pre.active_triggers[j])
          /\ pre.active_triggers[i].resolved
          /\ pre.active_triggers[i].resolution_action # op.action
          /\ ~pre.active_triggers[j].resolved
          /\ active_triggers[j].resolved
          /\ active_triggers[i] = pre.active_triggers[i]

\* the triggers of the store that the history window of the call in progress
\* holds, and the resolved ones among them
Window == {i \in DOMAIN active_triggers :
              active_triggers[i].timestamp.n >= now - op.arg.days * 172800}
ResolvedInWindow == {i \in Window : active_triggers[i].resolved}

\* C18: get_trigger_statistics returns without an exception a resolution_rate
\* that is 0 when the history window holds no trigger and otherwise the number
\* of resolved triggers of the window divided by the number of triggers of the
\* window; when the store's only trigger is in the window and resolved, the
\* rate is 1.
C18_ResolutionRate ==
    Called("get_trigger_statistics") =>
        LET rate == ret.val.resolution_rate IN
        /\ ret.exc = ""
        /\ rate.den > 0
        /\ Window = {} => rate.num = 0
        /\ Window # {} =>
              rate.num * Cardinality(Window) = Cardinality(ResolvedInWindow) * rate.den
        /\ (Len(active_triggers) = 1 /\ Window = {1} /\ active_triggers[1].resolved)
              => rate.num = rate.den

\* statistics over a window that holds one resolved and one open trigger: 1/2
C18_Witness ==
    /\ Called("get_trigger_statistics")
    /\ Cardinality(Window) = 2
    /\ Cardinality(ResolvedInWindow) = 1
    /\ ret.val.resolution_rate = [num |-> 1, den |-> 2]

\* the sum of the values of a dict
RECURSIVE SumValues(_)
SumValues(d) ==
    IF DOMAIN d = {} THEN 0
    ELSE LET k == CHOOSE x \in DOMAIN d : TRUE
         IN d[k] + SumValues([x \in DOMAIN d \ {k} |-> d[x]])

\* C19: in every result of get_trigger_statistics the values of by_severity,
\* of by_machine and of by_type each sum to total_triggers, and the call leaves
\* every trigger and every rule as it was.
C19_CountsConsistent ==
    Called("get_trigger_statistics") =>
        /\ SumValues(ret.val.by_severity) = ret.val.total_triggers
        /\ SumValues(ret.val.by_machine) = ret.val.total_triggers
        /\ SumValues(ret.val.by_type) = ret.val.total_triggers
        /\ active_triggers = pre.active_triggers
        /\ alert_rules = pre.alert_rules

\* statistics of two triggers of one machine with different severities
C19_Witness ==
    /\ Called("get_trigger_statistics")
    /\ ret.val.total_triggers = 2
    /\ Cardinality(DOMAIN ret.val.by_severity) = 2
    /\ Cardinality(DOMAIN ret.val.by_machine) = 1
    /\ \E i \in DOMAIN active_triggers : active_triggers[i].resolved

(* ---- C21 ---- *)
\* positions of the unresolved triggers of the store, of machine_id only
\* unless machine_id is "", and the k-th of a set of positions
ActiveOf(machine_id) ==
    {i \in DOMAIN active_triggers :
        /\ ~active_triggers[i].resolved
        /\ machine_id # "" => active_triggers[i].machine_id = machine_id}
Kth(S, k) == CHOOSE i \in S : Cardinality({j \in S : j <= i}) = k

\* C21: get_active_triggers(machine_id) returns exactly the unresolved
\* triggers of the store, in store order, of that machine only when a machine
\* is given and of every machine when none is; and once resolve_trigger has
\* returned True for the only active trigger of a machine,
\* get_active_triggers(that machine) is empty.
C21_ActiveTriggersExact ==
    /\ Called("get_active_triggers") =>
          /\ ret.exc = ""
          /\ Len(ret.val) = Cardinality(ActiveOf(op.machine_id))
          /\ \A k \in 1..Len(ret.val) :
                ret.val[k] = active_triggers[Kth(ActiveOf(op.machine_id), k)]
    /\ (/\ Called("resolve_trigger") /\ ret.val = TRUE
        /\ Cardinality({i \in DOMAIN pre.active_triggers :
                           /\ ~pre.active_triggers[i].resolved
                           /\ pre.active_triggers[i].machine_id = op.machine_id}) = 1)
          => get_active_triggers(active_triggers, op.machine_id) = <<>>

\* a machine filter that leaves out another machine's open trigger and the
\* machine's own resolved one
C21_Witness ==
    /\ Called("get_active_triggers")
    /\ op.machine_id = "VF2_01"
    /\ ret.val = <<>>
    /\ \E i, j \in DOMAIN active_triggers :
          /\ active_triggers[i].machine_id = "VF2_01" /\ active_triggers[i].resolved
          /\ active_triggers[j].machine_id = "ST10_01" /\ ~active_triggers[j].resolved

(* ---- C22 ---- *)
\* positions in alert_rules of the rules matching data whose key, for the
\* record's machine, had no unresolved trigger when the call began
Fresh(data) ==
    {i \in Matched(data) :
        Unresolved(pre.active_triggers, data["machine_id"].s, alert_rules[i].name) = {}}

\* C22: the list process_sensor_data returns holds the triggers the call
\* created and no other: one per matched rule whose key had no unresolved
\* trigger, in rule registration order, each new in the store, with the
\* record's machine_id, the rule's name as trigger_type, the rule's severity
\* and description, and resolved False.
C22_ReturnsCreatedOnly ==
    (Called("process_sensor_data") /\ ret.exc = "") =>
        /\ Len(ret.val) = Cardinality(Fresh(op.data))
        /\ \A k \in 1..Len(ret.val) :
              LET trigger == active_triggers[ret.val[k]]
                  rule == alert_rules[Kth(Fresh(op.data), k)]
              IN /\ ret.val[k] > Len(pre.active_triggers)
                 /\ trigger.machine_id = op.data["machine_id"].s
                 /\ trigger.trigger_type = rule.name
                 /\ trigger.severity = rule.severity
                 /\ trigger.description = rule.description
                 /\ trigger.resolved = FALSE

\* two rules match, one has an open trigger already: one trigger is returned
C22_Witness ==
    /\ Called("process_sensor_data") /\ ret.exc = ""
    /\ Cardinality(Matched(op.data)) = 2
    /\ Len(ret.val) = 1
    /\ active_triggers[ret.val[1]].trigger_type = "High Temperature"
    /\ Unresolved(pre.active_triggers, op.data["machine_id"].s, "Critical Vibration") # {}

(* ---- C23 ---- *)
\* C23: when a record matches a rule whose key has resolved triggers only,
\* process_sensor_data creates a new unresolved trigger of that key and
\* calls its channels, and every trigger the store held stays as it was; and
\* a trigger is created only by process_sensor_data, for a rule that matches
\* the record and whose key had no unresolved trigger.
C23_RetriggerAfterResolve ==
    /\ (Called("process_sensor_data") /\ ret.exc = "") =>
          \A i \in Matched(op.data) :
              LET m == op.data["machine_id"].s
                  t == alert_rules[i].name
              IN (/\ Unresolved(pre.active_triggers, m, t) = {}
                  /\ \E j \in DOMAIN pre.active_triggers :
                        /\ pre.active_triggers[j].machine_id = m
                        /\ pre.active_triggers[j].trigger_type = t
                        /\ pre.active_triggers[j].resolved)
                 => /\ \E k \in Created :
                          /\ active_triggers[k].machine_id = m
                          /\ active_triggers[k].trigger_type = t
                          /\ ~active_triggers[k].resolved
                    /\ \E a \in Range(NewAlerts) : a.machine_id = m /\ a.trigger_type = t
                    /\ \A j \in DOMAIN pre.active_triggers :
                          /\ j \in DOMAIN active_triggers
                          /\ active_triggers[j] = pre.active_triggers[j]
    /\ Called("process_sensor_data") =>
          \A k \in Created :
              /\ \E i \in Matched(op.data) : alert_rules[i].name = active_triggers[k].trigger_type
              /\ Unresolved(pre.active_triggers, active_triggers[k].machine_id,
                            active_triggers[k].trigger_type) = {}
    /\ (op # NoOp /\ ~Called("process_sensor_data")) =>
          Len(active_triggers) = Len(pre.active_triggers)

\* a resolved trigger and, after it, a new open trigger of the same key
C23_Witness ==
    /\ Called("process_sensor_data") /\ ret.exc = ""
    /\ Len(pre.active_triggers) = 1 /\ Len(active_triggers) = 2
    /\ active_triggers[1].resolved /\ ~active_triggers[2].resolved
    /\ SameKey(active_triggers[1], active_triggers[2])
    /\ active_triggers[1] = pre.active_triggers[1]
    /\ Len(alerts) > Len(pre.alerts)

(* ---- C24 ---- *)
\* s and t hold the same elements the same number of times
SameBag(s, t) ==
    /\ Len(s) = Len(t)
    /\ \A x \in Range(s) \cup Range(t) :
          Cardinality({i \in DOMAIN s : s[i] = x}) = Cardinality({i \in DOMAIN t : t[i] = x})

\* the store and the channel calls after process_sensor_data(data1) then
\* process_sensor_data(data2), called one after the other from the state
\* the two workers started in
OneAfterTheOther(data1, data2) ==
    LET first == process_sensor_data(pre.alert_rules, pre.active_triggers, pre.alerts,
                                     data1, now, {})
    IN process_sensor_data(pre.alert_rules, first.store, first.alerts, data2, now, {})

PairDone == op.name = "process_pair" /\ \A w \in Pair : pc[w] = "done"

\* C24: when two workers have run process_sensor_data on records of two
\* different machines, whatever the interleaving of their statements, the
\* store holds the same triggers and the channels have received the same
\* calls as after processing the two records one after the other, in either
\* order; neither worker raises; and every rule a record matched has an
\* unresolved trigger for that record's own machine, an active trigger of
\* the other machine notwithstanding.
C24_DifferentMachinesInParallel ==
    PairDone =>
        /\ job[1].data["machine_id"] # job[2].data["machine_id"]
        /\ \A w \in Pair : locals[w].exc = ""
        /\ SameBag(active_triggers, OneAfterTheOther(job[1].data, job[2].data).store)
        /\ SameBag(alerts, OneAfterTheOther(job[1].data, job[2].data).alerts)
        /\ SameBag(active_triggers, OneAfterTheOther(job[2].data, job[1].data).store)
        /\ SameBag(alerts, OneAfterTheOther(job[2].data, job[1].data).alerts)
        /\ \A w \in Pair : \A i \in Matched(job[w].data) :
              Unresolved(active_triggers, job[w].data["machine_id"].s, alert_rules[i].name) # {}

\* worker 1 created a trigger for VF2_01 while ST10_01 had an open trigger
\* of the same rule, which worker 2's record matched as well
C24_Witness ==
    /\ PairDone
    /\ Len(pre.active_triggers) = 1 /\ Len(active_triggers) = 2
    /\ pre.active_triggers[1].machine_id = "ST10_01" /\ ~pre.active_triggers[1].resolved
    /\ active_triggers[2].machine_id = "VF2_01"
    /\ active_triggers[2].trigger_type = pre.active_triggers[1].trigger_type
    /\ Matched(job[2].data) # {}

(* ---- C25 ---- *)
\* the fields of the record the condition of a default rule reads
Reads(name) ==
    CASE name = "Critical Vibration" -> {"vibration_rms"}
      [] name = "High Temperature" -> Range(temp_keys)
      [] name = "Current Spike" -> Range(current_keys)
      [] name = "Quality Issue" -> {"quality_flag"}
      [] name = "Machine Fault" -> {"state"}
      [] name = "ML Anomaly" -> {"anomaly_detected"}
      [] name = "Low RUL" -> {"rul_hours"}
      [] OTHER -> {}

\* C25: a default rule matches a record, or raises on it, only through a
\* field the record holds: every rule evaluate_sensor_data returns and every
\* rule whose failure it logs reads a field that is present.  A record with
\* no sensor field matches none of the seven default rules, logs no failure,
\* and process_sensor_data returns an empty list for it, creating no trigger.
C25_MissingFieldNeverTriggers ==
    /\ Len(alert_rules) = 7
    /\ Called("evaluate_sensor_data") =>
          /\ \A k \in DOMAIN ret.val :
                \E f \in Reads(ret.val[k].name) : op.data[f] # Absent
          /\ \A k \in DOMAIN ret.logged :
                \E f \in Reads(ret.logged[k]) : op.data[f] # Absent
          /\ Present(op.data) = 0 => ret.val = <<>> /\ ret.logged = <<>>
    /\ (Called("process_sensor_data") /\ Present(op.data) = 0) =>
          /\ ret.exc = ""
          /\ ret.val = <<>>
          /\ ret.logged = <<>>
          /\ active_triggers = pre.active_triggers
          /\ alerts = pre.alerts

\* a record holding machine_id only was processed
C25_Witness ==
    /\ Called("process_sensor_data")
    /\ op.data["machine_id"] = Str("VF2_01")
    /\ Present(op.data) = 0
    /\ ret.val = <<>>

(* ---- C26 ---- *)
\* C26: a system just constructed has the seven default rules and no
\* trigger, and it has made no channel call; on a system with no
\* trigger get_active_triggers returns an empty list and
\* get_trigger_statistics returns total_triggers 0 and resolution_rate 0
\* without raising.
C26_FreshSystemIsEmpty ==
    /\ Called("__init__") =>
          /\ ret.exc = ""
          /\ alert_rules = default_rules
          /\ active_triggers = <<>>
          /\ alerts = <<>>
          /\ get_active_triggers(active_triggers, "") = <<>>
          /\ get_trigger_statistics(active_triggers, 7, now).total_triggers = 0
          /\ get_trigger_statistics(active_triggers, 7, now).resolution_rate.num = 0
    /\ (Called("get_active_triggers") /\ active_triggers = <<>>) =>
          ret.exc = "" /\ ret.val = <<>>
    /\ (Called("get_trigger_statistics") /\ active_triggers = <<>>) =>
          /\ ret.exc = ""
          /\ ret.val.total_triggers = 0
          /\ ret.val.resolution_rate.num = 0

\* a system was constructed after one that held triggers, added rules and
\* had dispatched alerts
C26_Witness ==
    /\ Called("__init__")
    /\ pre.active_triggers # <<>>
    /\ pre.alerts # <<>>
    /\ Len(pre.alert_rules) > 7
    /\ active_triggers = <<>>

(* ---- C27 ---- *)
\* C27: every stored trigger has resolution_time set exactly when resolved
\* is True, and an unresolved trigger has resolution_action None, in every
\* state process_sensor_data, resolve_trigger and import_triggers lead to.
C27_ResolutionFieldsConsistent ==
    \A i \in DOMAIN active_triggers :
        /\ (active_triggers[i].resolution_time # NoneV) <=> (active_triggers[i].resolved = TRUE)
        /\ active_triggers[i].resolved = FALSE => active_triggers[i].resolution_action = NoneV

\* an import that succeeded put a resolved trigger next to an open one
C27_Witness ==
    /\ Called("import_triggers")
    /\ ret.logged = <<>>
    /\ \E i \in DOMAIN active_triggers :
          /\ i > Len(pre.active_triggers)
          /\ active_triggers[i].resolved
          /\ active_triggers[i].resolution_time # NoneV
    /\ \E j \in DOMAIN pre.active_triggers : ~active_triggers[j].resolved

(* ---- C28 ---- *)
\* a channel call of the log before the call in progress failed for the key
FailedBefore(machine_id, trigger_type) ==
    \E a \in Range(pre.alerts) :
        ~a.done /\ a.machine_id = machine_id /\ a.trigger_type = trigger_type

\* C28: when send_alerts raises inside process_sensor_data, the trigger it
\* was called for is the last of the store and unresolved, the triggers
\* created are those of the first matched rules without an open trigger, up
\* to the one whose dispatch raised, no rule after it gets a trigger, and
\* the call returns no list; and a later call whose record matches a rule
\* whose key still has that unresolved trigger creates no trigger of the key
\* and calls no channel for it.
C28_FailedDispatchNotRetried ==
    /\ (Called("process_sensor_data") /\ ret.exc = "Exception") =>
          LET n == Len(active_triggers)
              m == op.data["machine_id"].s
          IN /\ Created # {}
             /\ ~active_triggers[n].resolved
             /\ send_alerts(active_triggers[n], op.arg.failing).exc # ""
             /\ ret.val = NoneV
             /\ Cardinality(Created) <= Cardinality(Fresh(op.data))
             /\ \A k \in 1..Cardinality(Fresh(op.data)) :
                   LET rule == alert_rules[Kth(Fresh(op.data), k)] IN
                   IF k <= Cardinality(Created)
                   THEN active_triggers[Len(pre.active_triggers) + k].trigger_type = rule.name
                   ELSE Unresolved(active_triggers, m, rule.name) = {}
    /\ Called("process_sensor_data") =>
          \A i \in Matched(op.data) :
              LET m == op.data["machine_id"].s
                  t == alert_rules[i].name
              IN (FailedBefore(m, t) /\ Unresolved(pre.active_triggers, m, t) # {})
                 => /\ \A k \in Created : ~(active_triggers[k].machine_id = m
                                              /\ active_triggers[k].trigger_type = t)
                    /\ \A a \in Range(NewAlerts) : ~(a.machine_id = m /\ a.trigger_type = t)

\* the dashboard raised for a trigger that is still open, and the next
\* record matching its rule was processed with every channel working
C28_Witness ==
    /\ Called("process_sensor_data")
    /\ op.arg.failing = {}
    /\ ret.exc = ""
    /\ \E i \in Matched(op.data) :
          /\ FailedBefore(op.data["machine_id"].s, alert_rules[i].name)
          /\ Unresolved(pre.active_triggers, op.data["machine_id"].s, alert_rules[i].name) # {}
    /\ active_triggers = pre.active_triggers
    /\ alerts = pre.alerts

(* ---- C29 ---- *)
\* C29: for a trigger whose severity is none of low, medium, high and
\* critical, send_alerts calls update_dashboard_alert once and no other
\* channel, and raises nothing: the channel calls process_sensor_data logs
\* for such a trigger it created are that one dashboard call.
C29_UnknownSeverityDashboardOnly ==
    Called("process_sensor_data") =>
        \A k \in Created :
            LET trigger == active_triggers[k]
                sent == send_alerts(trigger, op.arg.failing)
                Mine(a) == a.machine_id = trigger.machine_id
                           /\ a.trigger_type = trigger.trigger_type
            IN trigger.severity \notin {"low", "medium", "high", "critical"} =>
                 /\ ret.exc = ""
                 /\ sent.exc = ""
                 /\ sent.logged = <<>>
                 /\ sent.alerts = <<Notify("dashboard", trigger.machine_id,
                                           trigger.trigger_type, TRUE)>>
                 /\ SelectSeq(NewAlerts, Mine) = sent.alerts

\* a rule of severity "urgent" matched next to a critical rule and both
\* triggers were created
C29_Witness ==
    /\ Called("process_sensor_data")
    /\ \E k \in Created : active_triggers[k].severity = "urgent"
    /\ \E k \in Created : active_triggers[k].severity = "critical"
    /\ \E a \in Range(NewAlerts) : a.channel = "stop_machine"

(* ---- C30 ---- *)
\* C30: for a record without machine_id, process_sensor_data returns an
\* empty list and raises nothing when no rule matches, and raises KeyError
\* when a rule matches; either way the store holds the triggers it held and
\* no channel has been called.
C30_MissingMachineId ==
    (Called("process_sensor_data") /\ op.data["machine_id"] = Absent) =>
        /\ IF Matched(op.data) = {}
           THEN ret.exc = "" /\ ret.val = <<>>
           ELSE ret.exc = "KeyError" /\ ret.val = NoneV
        /\ active_triggers = pre.active_triggers
        /\ alerts = pre.alerts

\* a record without machine_id matched a rule while the store held a trigger
C30_Witness ==
    /\ Called("process_sensor_data")
    /\ op.data["machine_id"] = Absent
    /\ Matched(op.data) # {}
    /\ ret.exc = "KeyError"
    /\ active_triggers # <<>>

====
